---- MODULE Spec2Model ----
(***************************************************************************)
(* Model of display-observer-rs: the snapshot-diff engine and the          *)
(* callback-dispatch bridge of src/src/windows.rs and src/src/macos.rs.    *)
(*                                                                         *)
(* The operating system is the environment: it holds the real display      *)
(* configuration (os), changes it (reconfigure) and delivers raw           *)
(* notifications (queue) to the handler the observer installed: wnd_proc   *)
(* on Windows, display_callback on macOS.  The observer holds the retained *)
(* snapshot (cached) and the callback slot (callback) behind one Mutex;    *)
(* every handler takes the lock for its whole body, so each handler is one *)
(* atomic action.                                                          *)
(*                                                                         *)
(* HashMap iteration order is unspecified in Rust: every loop over a map   *)
(* takes its order as an input chosen with \E.                             *)
(***************************************************************************)
EXTENDS Integers, Sequences, FiniteSets, TLC

\* ------------------------------------------------------------------ bounds
MaxDisplays == 2     \* how many distinct display ids the OS can hand out
MaxChanges  == 2     \* how many reconfigurations the OS performs in a run
MaxPending  == 2     \* how many raw notifications may wait undelivered
MaxTouched  == 1     \* how many displays one reconfiguration may change
MaxLifeChanges == 1  \* reconfigurations in a run of the life-cycle specification

\* ---------------------------------------------------------------- universe
Platforms == {"windows", "macos"}
Ids       == 1..MaxDisplays
Callbacks == {"A", "B"}
NoCallback == "None"                      \* Option::None in the callback slot
None      == [none |-> TRUE]              \* an event field that is not there

\* What the OS reports for a display: CGDisplayBounds / rcMonitor values.
OsOrigins == {[x |-> 0, y |-> 0], [x |-> 1920, y |-> 0], [x |-> -1920, y |-> 0]}
OsSizes   == {[width |-> 1920, height |-> 1080], [width |-> 1280, height |-> 1024]}
OsDisplays == [origin : OsOrigins, size : OsSizes, mirrored : BOOLEAN]

\* The flags of CGDisplayChangeSummaryFlags that display_callback tests.
BeginConfigurationFlag == "BeginConfigurationFlag"
AddFlag      == "AddFlag"
RemoveFlag   == "RemoveFlag"
MirrorFlag   == "MirrorFlag"
UnMirrorFlag == "UnMirrorFlag"
SetModeFlag  == "SetModeFlag"
MovedFlag    == "MovedFlag"

\* Window messages: the one process_window_message handles, and another one
\* (the device-interface notification RegisterDeviceNotificationW asks for).
WM_DISPLAYCHANGE == "WM_DISPLAYCHANGE"
WM_DEVICECHANGE  == "WM_DEVICECHANGE"
CG_RECONFIGURATION == "CGDisplayReconfiguration"

VARIABLES
    platform,   \* which implementation is compiled in (cfg(target_os))
    os,         \* the real display configuration: present id -> OsDisplays
    queue,      \* raw notifications the OS has yet to deliver, in order
    cached,     \* EventTracker's retained snapshot (cached_displays / cached_state)
    callback,   \* the callback slot: NoCallback or a callback
    changes,    \* reconfigurations so far (bounded by MaxChanges)
    \* what the last step did (observation of the run, not program state)
    hint,       \* the raw notification the last step's handler run received
    provider,   \* the Snapshot Provider's outcome in that run
    before,     \* the retained snapshot when that run began
    batch,      \* the events that run passed to the callback, in order
    batchTo,    \* the callback that received them
    lastSet,    \* the argument of the latest set_callback (NoCallback after remove)
    replaced,   \* the callback that the latest set_callback replaced, if any
    \* the observer's life and its threads (see the life-cycle specification)
    result,     \* what DisplayObserver::new returned, "none" before it is called
    hook,       \* the registrations the observer holds with the OS
    arc,        \* the Arc<Mutex<..>> allocation: "unallocated", "alive", "freed"
    mutex,      \* the thread that holds the Mutex, or NoHolder
    pc,         \* where each thread is
    todo,       \* the events the dispatch loop in progress has yet to pass on
    \* the blocking loop (see the run-loop specification)
    runner      \* DisplayObserver::run: its thread, where it is, what it returned

\* The variables of the observer's life and threads, and of its blocking loop.
lvars == <<result, hook, arc, mutex, pc, todo, runner>>

vars == <<platform, os, queue, cached, callback, changes,
          hint, provider, before, batch, batchTo, lastSet, replaced,
          result, hook, arc, mutex, pc, todo, runner>>

\* ----------------------------------------------------------------- helpers
Min(S) == CHOOSE m \in S : \A n \in S : m <= n

\* All orders in which a loop may visit the keys of a HashMap.
Orders(S) == {s \in [1..Cardinality(S) -> S] : \A i, j \in 1..Cardinality(S) : s[i] = s[j] => i = j}

\* HashMap::insert and HashMap::remove on a snapshot.
Insert(map, k, v) == [i \in (DOMAIN map) \cup {k} |-> IF i = k THEN v ELSE map[i]]
Remove(map, k)    == [i \in (DOMAIN map) \ {k} |-> map[i]]

EmptyMap == [i \in {} |-> None]

\* ------------------------------------------------------------- conversions
\* Rust's `f64 as u32`: saturating, so a negative value becomes 0.  (The upper
\* saturation at 2^32 - 1 lies above every integer TLC represents, 2^31 - 1.)
F64AsU32(v) == IF v < 0 THEN 0 ELSE v

\* Rust's `i32 as u32`: two's-complement reinterpretation.  A negative v
\* becomes 2^32 + v, which lies above TLC's integers and is kept symbolically.
I32AsU32(v) == IF v >= 0 THEN v ELSE [two_pow_32_plus |-> v]

\* impl From<CGSize> for Size, impl From<CGPoint> for Origin
SizeFromCGSize(s)    == [width |-> F64AsU32(s.width), height |-> F64AsU32(s.height)]
OriginFromCGPoint(p) == [x |-> F64AsU32(p.x), y |-> F64AsU32(p.y)]

\* MONITORINFO.rcMonitor of a display
RcMonitor(d) == [left |-> d.origin.x, top |-> d.origin.y,
                 right |-> d.origin.x + d.size.width,
                 bottom |-> d.origin.y + d.size.height]

\* CGDisplayBounds(id): the zero rectangle for an id that is not a display.
CGDisplayBounds(o, id) ==
    IF id \in DOMAIN o
    THEN [origin |-> o[id].origin, size |-> o[id].size]
    ELSE [origin |-> [x |-> 0, y |-> 0], size |-> [width |-> 0, height |-> 0]]

\* The OS designates one active display as primary: the lowest-numbered one.
IsPrimary(o, id) == id = Min(DOMAIN o)

\* -------------------------------------------------------- Snapshot Provider
\* monitor_enum_proc: the Display record pushed for one monitor.
monitor_enum_proc(o, id) ==
    LET rc == RcMonitor(o[id])
    IN  [id          |-> id,
         origin      |-> [x |-> rc.left, y |-> rc.top],
         size        |-> [width  |-> I32AsU32(rc.right - rc.left),
                          height |-> I32AsU32(rc.bottom - rc.top)],
         is_primary  |-> IsPrimary(o, id),
         is_mirrored |-> o[id].mirrored]

\* windows EventTracker::collect_new_cached_state on success.
windows_collect_new_cached_state(o) == [id \in DOMAIN o |-> monitor_enum_proc(o, id)]

\* macos DisplayState read through MacOSDisplay::size / origin.
macos_display_state(o, id) ==
    [size   |-> SizeFromCGSize(CGDisplayBounds(o, id).size),
     origin |-> OriginFromCGPoint(CGDisplayBounds(o, id).origin)]

\* macos EventTracker::collect_new_cached_state on success.
macos_collect_new_cached_state(o) == [id \in DOMAIN o |-> macos_display_state(o, id)]

collect_new_cached_state(p, o) ==
    IF p = "windows" THEN windows_collect_new_cached_state(o)
                     ELSE macos_collect_new_cached_state(o)

\* -------------------------------------------------------------- Event Model
\* The id field of an event that carries no id: a value that is no display id.
NoId == Min(Ids) - 1

\* windows: Event carries the display (a clone of the new record) or, for
\* Removed, the id; the callback receives the bare Event.
WindowsEvent(kind, display, id, bf, af) ==
    [kind |-> kind, wrapper |-> "Event", display |-> display, id |-> id,
     before |-> bf, after |-> af]

\* macos: Event carries no display; only Removed carries an id.
MacEvent(kind, id, bf, af) == [kind |-> kind, id |-> id, before |-> bf, after |-> af]

\* MayBeDisplayAvailable::Available { display: MacOSDisplay::new(id), event }
display_available(id, event) ==
    [kind |-> event.kind, wrapper |-> "Available", display |-> [id |-> id],
     id |-> event.id, before |-> event.before, after |-> event.after]

\* MayBeDisplayAvailable::NotAvailable { event }
not_available(event) ==
    [kind |-> event.kind, wrapper |-> "NotAvailable", display |-> None,
     id |-> event.id, before |-> event.before, after |-> event.after]

\* The display an event delivered to the callback is about, as the callback
\* can tell: the id of Removed, else the display that comes with the event.
Subject(e) == IF e.kind = "Removed" THEN e.id ELSE e.display.id

\* -------------------------------------------------------------- Diff Engine
\* Mutant of windows_changed_events: SizeChanged and OriginChanged carry the
\* new value in both fields.
windows_changed_events_after_twice(b, a) ==
    (IF b.size # a.size
        THEN <<WindowsEvent("SizeChanged", a, NoId, a.size, a.size)>> ELSE <<>>)
    \o (IF b.origin # a.origin
        THEN <<WindowsEvent("OriginChanged", a, NoId, a.origin, a.origin)>> ELSE <<>>)
    \o (IF b.is_mirrored # a.is_mirrored
        THEN <<IF a.is_mirrored THEN WindowsEvent("Mirrored", a, NoId, None, None)
                                ELSE WindowsEvent("UnMirrored", a, NoId, None, None)>>
        ELSE <<>>)

\* Mutant of windows_changed_events: the test of the mirrored flag looks at
\* the old record, so Mirrored and UnMirrored change places.
windows_changed_events_mirror_of_before(b, a) ==
    (IF b.size # a.size
        THEN <<WindowsEvent("SizeChanged", a, NoId, b.size, a.size)>> ELSE <<>>)
    \o (IF b.origin # a.origin
        THEN <<WindowsEvent("OriginChanged", a, NoId, b.origin, a.origin)>> ELSE <<>>)
    \o (IF b.is_mirrored # a.is_mirrored
        THEN <<IF b.is_mirrored THEN WindowsEvent("Mirrored", a, NoId, None, None)
                                ELSE WindowsEvent("UnMirrored", a, NoId, None, None)>>
        ELSE <<>>)

\* windows track_events, the body of the first loop for an id present in both.
windows_changed_events(b, a) ==
    (IF b.size # a.size
        THEN <<WindowsEvent("SizeChanged", a, NoId, b.size, a.size)>> ELSE <<>>)
    \o (IF b.origin # a.origin
        THEN <<WindowsEvent("OriginChanged", a, NoId, b.origin, a.origin)>> ELSE <<>>)
    \o (IF b.is_mirrored # a.is_mirrored
        THEN <<IF a.is_mirrored THEN WindowsEvent("Mirrored", a, NoId, None, None)
                                ELSE WindowsEvent("UnMirrored", a, NoId, None, None)>>
        ELSE <<>>)

\* Mutant of windows_before_loop: the else is lost, so Removed is pushed for
\* every display of the old map, changed or gone.
RECURSIVE windows_before_loop_no_else(_, _, _)
windows_before_loop_no_else(bf, af, order) ==
    IF order = <<>> THEN <<>>
    ELSE LET id == Head(order)
         IN  (IF id \in DOMAIN af THEN windows_changed_events(bf[id], af[id]) ELSE <<>>)
             \o <<WindowsEvent("Removed", None, id, None, None)>>
             \o windows_before_loop_no_else(bf, af, Tail(order))

\* windows track_events, first loop: over the old map, in its iteration order.
RECURSIVE windows_before_loop(_, _, _)
windows_before_loop(bf, af, order) ==
    IF order = <<>> THEN <<>>
    ELSE LET id == Head(order)
         IN  (IF id \in DOMAIN af
                 THEN windows_changed_events(bf[id], af[id])
                 ELSE <<WindowsEvent("Removed", None, id, None, None)>>)
             \o windows_before_loop(bf, af, Tail(order))

\* windows track_events, second loop: over the new map, in its iteration order.
RECURSIVE windows_after_loop(_, _, _)
windows_after_loop(bf, af, order) ==
    IF order = <<>> THEN <<>>
    ELSE LET id == Head(order)
         IN  (IF id \notin DOMAIN bf
                 THEN <<WindowsEvent("Added", af[id], NoId, None, None)>>
                 ELSE <<>>)
             \o windows_after_loop(bf, af, Tail(order))

\* Mutant of track_events: the second loop lacks the !before.contains_key(id)
\* test and reports every display of the new map as Added.
RECURSIVE all_added(_, _)
all_added(af, order) ==
    IF order = <<>> THEN <<>>
    ELSE <<WindowsEvent("Added", af[Head(order)], NoId, None, None)>>
         \o all_added(af, Tail(order))

track_events_no_contains_key(bf, af, ob, oa) ==
    windows_before_loop(bf, af, ob) \o all_added(af, oa)

\* windows EventTracker::track_events, given the old and the freshly collected
\* map and the two iteration orders.
track_events(bf, af, ob, oa) ==
    windows_before_loop(bf, af, ob) \o windows_after_loop(bf, af, oa)

\* macos track_changes, the body of the loop for an id present in both.
macos_changed_events(b, a) ==
    (IF b.size # a.size
        THEN <<MacEvent("SizeChanged", NoId, b.size, a.size)>> ELSE <<>>)
    \o (IF b.origin # a.origin
        THEN <<MacEvent("OriginChanged", NoId, b.origin, a.origin)>> ELSE <<>>)

\* macos EventTracker::track_changes, given the old and the freshly collected
\* map and the iteration order of the old one.
RECURSIVE track_changes(_, _, _)
track_changes(bf, af, order) ==
    IF order = <<>> THEN <<>>
    ELSE LET id == Head(order)
         IN  (IF id \in DOMAIN af THEN macos_changed_events(bf[id], af[id]) ELSE <<>>)
             \o track_changes(bf, af, Tail(order))

\* tracked_events wrapped one by one with display_available (the hinted id).
RECURSIVE wrap_available(_, _)
wrap_available(id, events) ==
    IF events = <<>> THEN <<>>
    ELSE <<display_available(id, Head(events))>> \o wrap_available(id, Tail(events))

\* ------------------------------------------------------------ Dispatch Core
\* What the handler run of the last step did, for the properties to read.
\* A step that is no handler run clears it (hint = NoHint).
Observe(h, p, bf, evs, to) ==
    /\ hint' = h
    /\ provider' = p
    /\ before' = bf
    /\ batch' = evs
    /\ batchTo' = to

NoHint == [msg |-> "none", id |-> NoId, flags |-> {}]

Idle == Observe(NoHint, "not_called", cached, <<>>, NoCallback)

\* ------------------------------------------------------------- construction
\* The threads: the one on which the OS calls the handler, and the
\* application's, which owns the observer.
Threads  == {"os", "app"}
NoHolder == "NoHolder"                    \* the Mutex is not locked

\* A thread's position: where it is; the callback it is about to store; for
\* the handler, the callback that got the calls of this run so far, and the
\* raw notification it was called with.
At(at, arg, to, h) == [at |-> at, arg |-> arg, to |-> to, hint |-> h]
AtIdle == At("idle", NoCallback, NoCallback, NoHint)

\* Mutant of MutexLockable: a reentrant lock, which its holder may take again.
MutexLockable_reentrant(holder, t) == holder = NoHolder \/ holder = t

\* Mutant of MutexLockable: no lock at all.
MutexLockable_always(holder, t) == TRUE

\* Mutex::lock returns for thread t only when no thread holds the Mutex;
\* until then the caller blocks, the holder itself included.
MutexLockable(holder, t) == holder = NoHolder

\* What the observer registers with the OS.
WindowClass             == "RegisterClassW"
Window                  == "CreateWindowExW"
DeviceNotification      == "RegisterDeviceNotificationW"
UserData                == "SetWindowLongPtrW"
ReconfigurationCallback == "CGDisplayRegisterReconfigurationCallback"

\* The fallible calls of the two constructors, in the order they are made.
NoFailure       == "none"
WindowsFailures == {"GetModuleHandleW", "EventTracker::new", Window, DeviceNotification}
MacosFailures   == {"EventTracker::new", ReconfigurationCallback}

\* The registrations of a fully constructed observer.
FullHook(p) ==
    IF p = "windows" THEN {WindowClass, Window, DeviceNotification, UserData}
                     ELSE {ReconfigurationCallback}

\* MacOSDisplayObserver::new when the call named fail fails (NoFailure: none
\* does): the tracker is collected, the Arc allocated, the callback
\* registered; `?` returns at the first failure and drops what was built.
macos_new(fail, o) ==
    IF fail = "EventTracker::new"
    THEN [result |-> "Err", hook |-> {}, arc |-> "unallocated", tracker |-> EmptyMap]
    ELSE IF fail = ReconfigurationCallback
    THEN [result |-> "Err", hook |-> {}, arc |-> "freed", tracker |-> EmptyMap]
    ELSE [result |-> "Ok", hook |-> {ReconfigurationCallback}, arc |-> "alive",
          tracker |-> macos_collect_new_cached_state(o)]

\* WindowsDisplayObserver::new likewise: module handle, RegisterClassW (its
\* result is not looked at), tracker and Arc, CreateWindowExW,
\* RegisterDeviceNotificationW, SetWindowLongPtrW.  Nothing that was
\* registered is taken back on the way out of a failure.
windows_new(fail, o) ==
    IF fail = "GetModuleHandleW"
    THEN [result |-> "Err", hook |-> {}, arc |-> "unallocated", tracker |-> EmptyMap]
    ELSE IF fail = "EventTracker::new"
    THEN [result |-> "Err", hook |-> {WindowClass}, arc |-> "unallocated",
          tracker |-> EmptyMap]
    ELSE IF fail = Window
    THEN [result |-> "Err", hook |-> {WindowClass}, arc |-> "freed", tracker |-> EmptyMap]
    ELSE IF fail = DeviceNotification
    THEN [result |-> "Err", hook |-> {WindowClass, Window}, arc |-> "freed",
          tracker |-> EmptyMap]
    ELSE [result |-> "Ok", hook |-> {WindowClass, Window, DeviceNotification, UserData},
          arc |-> "alive", tracker |-> windows_collect_new_cached_state(o)]

\* PlatformDisplayObserver::new
platform_new(p, fail, o) ==
    IF p = "windows" THEN windows_new(fail, o) ELSE macos_new(fail, o)

\* impl From<PlatformError> for Error: the variant the conversion builds.
ErrorFromPlatformError == "PlatformError"

\* DisplayObserver::new: `PlatformDisplayObserver::new()?`, the error going
\* through From<PlatformError>.
DisplayObserver_new(r) == IF r.result = "Ok" THEN "Ok" ELSE ErrorFromPlatformError

\* ---- run
\* The threads of the process: its main thread and any other.
RunThreads == {"main", "other"}

\* run has not been called; the observer was constructed on thread owner.
\* got holds what the last GetMessageW of the loop returned, once there is one.
NotCalled(owner) ==
    [owner |-> owner, thread |-> "none", at |-> "not_called", value |-> "none",
     got |-> <<>>]

\* Mutant of MainThreadMarker_new: a marker is handed out on every thread.
MainThreadMarker_new_unchecked(th) == TRUE

\* objc2::MainThreadMarker::new(): Some(marker) on the main thread only.
MainThreadMarker_new(th) == th = "main"

\* MacOSDisplayObserver::run on thread th: `.expect(..)` panics without a
\* marker, NSApplication::run() blocks with one.
macos_run(r, th) ==
    IF MainThreadMarker_new(th)
    THEN [r EXCEPT !.thread = th, !.at = "looping"]
    ELSE [r EXCEPT !.thread = th, !.at = "panicked"]

\* What GetMessageW may return: -1 on failure, 0 for WM_QUIT, nonzero for any
\* other message.
GetMessageWReturns == {-1, 0, 1}

\* BOOL::as_bool
as_bool(ret) == ret # 0

\* WindowsDisplayObserver::run, entered on thread th: no check of the thread.
windows_run(r, th) == [r EXCEPT !.thread = th, !.at = "looping"]

\* One evaluation of the loop's condition, GetMessageW returning ret: the
\* body runs and the loop goes on, or the loop ends and run returns Ok(()).
windows_run_iteration(r, ret) ==
    IF as_bool(ret)
    THEN [r EXCEPT !.got = <<ret>>]
    ELSE [r EXCEPT !.got = <<ret>>, !.at = "returned", !.value = "Ok"]

\* The display configurations the observer may be constructed in: one display
\* {origin (0,0), size 1920x1080}, alone or with a second one to its right.
D1 == [origin |-> [x |-> 0, y |-> 0], size |-> [width |-> 1920, height |-> 1080],
       mirrored |-> FALSE]
D2 == [origin |-> [x |-> 1920, y |-> 0], size |-> [width |-> 1280, height |-> 1024],
       mirrored |-> FALSE]
InitialOs == {[i \in {Min(Ids)} |-> D1],
              [i \in {Min(Ids), Min(Ids) + 1} |-> IF i = Min(Ids) THEN D1 ELSE D2]}

\* Init: the state Observer::new leaves on success: the hook is installed, the
\* callback slot is empty and the tracker holds the first enumeration.
Init ==
    /\ platform \in Platforms
    /\ os \in InitialOs
    /\ queue = <<>>
    /\ cached = collect_new_cached_state(platform, os)
    /\ callback = NoCallback
    /\ changes = 0
    /\ hint = NoHint
    /\ provider = "not_called"
    /\ before = cached
    /\ batch = <<>>
    /\ batchTo = NoCallback
    /\ lastSet = NoCallback
    /\ replaced = NoCallback
    /\ result = DisplayObserver_new(platform_new(platform, NoFailure, os))
    /\ hook = platform_new(platform, NoFailure, os).hook
    /\ arc = platform_new(platform, NoFailure, os).arc
    /\ mutex = NoHolder
    /\ pc = [t \in Threads |-> AtIdle]
    /\ todo = <<>>
    /\ runner = NotCalled("main")

\* Mutant of SlotAfterSet: Option::get_or_insert, which keeps a callback that
\* is already registered.
SlotAfterSet_get_or_insert(slot, cb) == IF slot = NoCallback THEN cb ELSE slot

\* The value set_callback leaves in the slot.
SlotAfterSet(slot, cb) == cb

\* set_callback(callback): lock, slot = Some(callback).
set_callback(cb) ==
    /\ callback' = SlotAfterSet(callback, cb)
    /\ lastSet' = cb
    /\ replaced' = lastSet
    /\ Idle
    /\ UNCHANGED <<platform, os, queue, cached, changes>>
    /\ UNCHANGED lvars

\* remove_callback(): lock, slot = None.
remove_callback ==
    /\ callback' = NoCallback
    /\ lastSet' = NoCallback
    /\ replaced' = NoCallback
    /\ Idle
    /\ UNCHANGED <<platform, os, queue, cached, changes>>
    /\ UNCHANGED lvars

\* Mutant of callback_calls: the loop takes the events from the back of the
\* vector (while let Some(event) = events.pop()).
RECURSIVE callback_calls_pop(_)
callback_calls_pop(events) ==
    IF events = <<>> THEN <<>>
    ELSE <<events[Len(events)]>> \o callback_calls_pop(SubSeq(events, 1, Len(events) - 1))

\* `for event in events { (callback)(event); }`: the calls made to the
\* callback, one per event, from the first event to the last.
RECURSIVE callback_calls(_)
callback_calls(events) ==
    IF events = <<>> THEN <<>>
    ELSE <<Head(events)>> \o callback_calls(Tail(events))

\* ---- windows
\* Mutant of process_window_message: a failed enumeration is taken as an empty
\* one (unwrap_or_default) instead of being propagated with `?`.
process_window_message_unwrap_or_default(msg, ok, tracker, o, ob, oa) ==
    IF msg = WM_DISPLAYCHANGE
    THEN LET fresh == IF ok THEN windows_collect_new_cached_state(o) ELSE EmptyMap
         IN  [result |-> "Ok", some |-> TRUE,
              events |-> track_events(tracker, fresh, ob, IF ok THEN oa ELSE <<>>),
              tracker |-> fresh, provider |-> IF ok THEN "ok" ELSE "failed"]
    ELSE [result |-> "Ok", some |-> FALSE, events |-> <<>>,
          tracker |-> tracker, provider |-> "not_called"]

\* Mutant of process_window_message: track_events diffs against the fresh
\* state but never stores it (the mem::replace is lost).
process_window_message_no_replace(msg, ok, tracker, o, ob, oa) ==
    IF msg = WM_DISPLAYCHANGE
    THEN IF ok
         THEN [result |-> "Ok", some |-> TRUE,
               events |-> track_events(tracker, windows_collect_new_cached_state(o), ob, oa),
               tracker |-> tracker, provider |-> "ok"]
         ELSE [result |-> "Err", some |-> FALSE, events |-> <<>>,
               tracker |-> tracker, provider |-> "failed"]
    ELSE [result |-> "Ok", some |-> FALSE, events |-> <<>>,
          tracker |-> tracker, provider |-> "not_called"]

\* Mutant of process_window_message: the new state is stored first and the
\* diff is then taken against the map that was just stored.
process_window_message_replace_first(msg, ok, tracker, o, ob, oa) ==
    IF msg = WM_DISPLAYCHANGE
    THEN IF ok
         THEN LET fresh == windows_collect_new_cached_state(o)
              IN  [result |-> "Ok", some |-> TRUE,
                   events |-> track_events(fresh, fresh, oa, oa),
                   tracker |-> fresh, provider |-> "ok"]
         ELSE [result |-> "Err", some |-> FALSE, events |-> <<>>,
               tracker |-> tracker, provider |-> "failed"]
    ELSE [result |-> "Ok", some |-> FALSE, events |-> <<>>,
          tracker |-> tracker, provider |-> "not_called"]

\* process_window_message: Ok(Some(events)) for WM_DISPLAYCHANGE when the
\* enumeration succeeds, Err when it fails, Ok(None) for any other message.
\* track_events collects the new state before it replaces the old one.
process_window_message(msg, ok, tracker, o, ob, oa) ==
    IF msg = WM_DISPLAYCHANGE
    THEN IF ok
         THEN LET fresh == windows_collect_new_cached_state(o)
              IN  [result |-> "Ok", some |-> TRUE,
                   events |-> track_events(tracker, fresh, ob, oa),
                   tracker |-> fresh, provider |-> "ok"]
         ELSE [result |-> "Err", some |-> FALSE, events |-> <<>>,
               tracker |-> tracker, provider |-> "failed"]
    ELSE [result |-> "Ok", some |-> FALSE, events |-> <<>>,
          tracker |-> tracker, provider |-> "not_called"]

\* The events wnd_proc passes to the callback.
windows_dispatched(r, slot) ==
    IF r.result = "Ok" /\ r.some /\ slot # NoCallback THEN callback_calls(r.events)
                                                       ELSE <<>>

\* wnd_proc: the window procedure, run for the next message of the queue.
wnd_proc ==
    /\ platform = "windows"
    /\ queue # <<>>
    /\ \E ok \in BOOLEAN, ob \in Orders(DOMAIN cached), oa \in Orders(DOMAIN os) :
          LET r == process_window_message(Head(queue).msg, ok, cached, os, ob, oa)
              evs == windows_dispatched(r, callback)
          IN  /\ cached' = r.tracker
              /\ Observe(Head(queue), r.provider, cached, evs,
                         IF evs # <<>> THEN callback ELSE NoCallback)
    /\ queue' = Tail(queue)
    /\ UNCHANGED <<platform, os, callback, changes, lastSet, replaced>>
    /\ UNCHANGED lvars

\* ---- macos
\* Mutant of begin_phase: no notification is taken for one of the begin phase.
begin_phase_never(flags) == FALSE

\* display_callback's first test of the flags: "We only care about the
\* "after" events, so ignore BeginConfiguration."
begin_phase(flags) == BeginConfigurationFlag \in flags

\* display_callback, the if / else-if chain on the flags: the tracker and the
\* events it leaves.
macos_flag_chain(id, flags, ok, tracker, o, order) ==
    IF AddFlag \in flags
    THEN [tracker |-> Insert(tracker, id, macos_display_state(o, id)),
          events |-> <<display_available(id, MacEvent("Added", NoId, None, None))>>,
          provider |-> "not_called"]
    ELSE IF RemoveFlag \in flags
    THEN [tracker |-> Remove(tracker, id),
          events |-> <<not_available(MacEvent("Removed", id, None, None))>>,
          provider |-> "not_called"]
    ELSE IF MirrorFlag \in flags
    THEN [tracker |-> tracker,
          events |-> <<display_available(id, MacEvent("Mirrored", NoId, None, None))>>,
          provider |-> "not_called"]
    ELSE IF UnMirrorFlag \in flags
    THEN [tracker |-> tracker,
          events |-> <<display_available(id, MacEvent("UnMirrored", NoId, None, None))>>,
          provider |-> "not_called"]
    ELSE IF SetModeFlag \in flags \/ MovedFlag \in flags
    THEN IF ok
         THEN LET fresh == macos_collect_new_cached_state(o)
              IN  [tracker |-> fresh,
                   events |-> wrap_available(id, track_changes(tracker, fresh, order)),
                   provider |-> "ok"]
         ELSE [tracker |-> tracker, events |-> <<>>, provider |-> "failed"]
    ELSE [tracker |-> tracker, events |-> <<>>, provider |-> "not_called"]

\* display_callback after the lock is taken: nothing at all happens unless a
\* callback is registered.
macos_locked(id, flags, ok, tracker, slot, o, order) ==
    IF slot # NoCallback
    THEN macos_flag_chain(id, flags, ok, tracker, o, order)
    ELSE [tracker |-> tracker, events |-> <<>>, provider |-> "not_called"]

\* display_callback: run for the next raw notification of the queue.  A
\* notification of the begin phase returns before the lock is taken.
display_callback ==
    /\ platform = "macos"
    /\ queue # <<>>
    /\ \E ok \in BOOLEAN, order \in Orders(DOMAIN cached) :
          LET h == Head(queue)
              r == IF begin_phase(h.flags)
                   THEN [tracker |-> cached, events |-> <<>>, provider |-> "not_called"]
                   ELSE macos_locked(h.id, h.flags, ok, cached, callback, os, order)
          IN  /\ cached' = r.tracker
              /\ Observe(h, r.provider, cached, callback_calls(r.events),
                         IF r.events # <<>> THEN callback ELSE NoCallback)
    /\ queue' = Tail(queue)
    /\ UNCHANGED <<platform, os, callback, changes, lastSet, replaced>>
    /\ UNCHANGED lvars

\* ------------------------------------------------- the OS (the environment)
\* A reconfiguration touches a set T of displays and gives each a new state
\* f[t]: a record of OsDisplays, or None when the display is disconnected.
Touched == {T \in SUBSET Ids : Cardinality(T) \in 1..MaxTouched}

Reconfigured(o, T, f) ==
    [i \in ((DOMAIN o) \ T) \cup {t \in T : f[t] # None} |->
        IF i \in T THEN f[i] ELSE o[i]]

\* Every touched display really changes.
RealChange(o, T, f) ==
    \A t \in T : IF t \in DOMAIN o THEN f[t] # o[t] ELSE f[t] # None

\* The summary flags CoreGraphics reports for display id after a
\* reconfiguration from old to new.
SummaryFlags(old, new, id) ==
    IF id \notin DOMAIN old THEN {AddFlag}
    ELSE IF id \notin DOMAIN new THEN {RemoveFlag}
    ELSE (IF old[id].size # new[id].size THEN {SetModeFlag} ELSE {})
         \cup (IF old[id].origin # new[id].origin THEN {MovedFlag} ELSE {})
         \cup (IF ~old[id].mirrored /\ new[id].mirrored THEN {MirrorFlag} ELSE {})
         \cup (IF old[id].mirrored /\ ~new[id].mirrored THEN {UnMirrorFlag} ELSE {})

CGHint(id, flags) == [msg |-> CG_RECONFIGURATION, id |-> id, flags |-> flags]
WinMessage(msg)   == [msg |-> msg, id |-> NoId, flags |-> {}]

\* macos: one callback per touched display, in the order the OS picks.
RECURSIVE CGHints(_, _, _)
CGHints(old, new, order) ==
    IF order = <<>> THEN <<>>
    ELSE <<CGHint(Head(order), SummaryFlags(old, new, Head(order)))>>
         \o CGHints(old, new, Tail(order))

\* windows: WM_DEVICECHANGE when a monitor device arrives or leaves, then
\* WM_DISPLAYCHANGE for the new desktop.
WinMessages(old, new) ==
    (IF DOMAIN old # DOMAIN new THEN <<WinMessage(WM_DEVICECHANGE)>> ELSE <<>>)
    \o <<WinMessage(WM_DISPLAYCHANGE)>>

RawHints(p, old, new, order) ==
    IF p = "windows" THEN WinMessages(old, new) ELSE CGHints(old, new, order)

\* The OS changes the display configuration and posts its notifications.
reconfigure ==
    /\ changes < MaxChanges
    /\ \E T \in Touched :
         \E f \in [T -> OsDisplays \cup {None}], order \in Orders(T) :
            LET new == Reconfigured(os, T, f)
                hints == RawHints(platform, os, new, order)
            IN  /\ RealChange(os, T, f)
                /\ Len(queue) + Len(hints) <= MaxPending
                /\ os' = new
                /\ queue' = queue \o hints
    /\ changes' = changes + 1
    /\ Idle
    /\ UNCHANGED <<platform, cached, callback, lastSet, replaced>>
    /\ UNCHANGED lvars

\* A mode change that alters nothing the provider reports (refresh rate,
\* colour depth): the notification is posted all the same.
mode_change ==
    /\ changes < MaxChanges
    /\ Len(queue) < MaxPending
    /\ \E id \in DOMAIN os :
          queue' = queue \o <<IF platform = "windows" THEN WinMessage(WM_DISPLAYCHANGE)
                                                       ELSE CGHint(id, {SetModeFlag})>>
    /\ changes' = changes + 1
    /\ Idle
    /\ UNCHANGED <<platform, os, cached, callback, lastSet, replaced>>
    /\ UNCHANGED lvars

\* macos: CoreGraphics announces that a reconfiguration is about to begin.
begin_configuration ==
    /\ platform = "macos"
    /\ changes < MaxChanges
    /\ queue = <<>>
    /\ \E id \in DOMAIN os : queue' = <<CGHint(id, {BeginConfigurationFlag})>>
    /\ Idle
    /\ UNCHANGED <<platform, os, cached, callback, changes, lastSet, replaced>>
    /\ UNCHANGED lvars

\* ------------------------------------------------------------ specification
Next ==
    \/ \E cb \in Callbacks : set_callback(cb)
    \/ remove_callback
    \/ wnd_proc
    \/ display_callback
    \/ reconfigure
    \/ mode_change
    \/ begin_configuration

Spec == Init /\ [][Next]_vars

\* ================================================ life-cycle specification
\* The same observer from before its construction to after its drop, with
\* the handler and the application's calls as steps of two threads: taking
\* the lock, each call to the callback, and releasing are steps of their own.
InitLife ==
    /\ platform \in Platforms
    /\ os \in InitialOs
    /\ queue = <<>>
    /\ cached = EmptyMap
    /\ callback = NoCallback
    /\ changes = 0
    /\ hint = NoHint
    /\ provider = "not_called"
    /\ before = EmptyMap
    /\ batch = <<>>
    /\ batchTo = NoCallback
    /\ lastSet = NoCallback
    /\ replaced = NoCallback
    /\ result = "none"
    /\ hook = {}
    /\ arc = "unallocated"
    /\ mutex = NoHolder
    /\ pc = [t \in Threads |-> AtIdle]
    /\ todo = <<>>
    /\ runner = NotCalled("main")

\* What the steps of the life cycle leave alone: the observations of Spec,
\* and run, which is not called.
ghosts == <<hint, provider, before, batch, batchTo, lastSet, replaced, runner>>

\* DisplayObserver::new, any one of its fallible calls failing, or none.
new ==
    /\ result = "none"
    /\ \E fail \in {NoFailure} \cup (IF platform = "windows" THEN WindowsFailures
                                                            ELSE MacosFailures) :
          LET r == platform_new(platform, fail, os)
          IN  /\ result' = DisplayObserver_new(r)
              /\ hook' = r.hook
              /\ arc' = r.arc
              /\ cached' = r.tracker
    /\ UNCHANGED <<platform, os, queue, callback, changes, mutex, pc, todo>>
    /\ UNCHANGED ghosts

\* The OS calls the handler only while the observer's registrations stand.
Delivering == hook = FullHook(platform)

\* The OS changes the configuration, or announces a change, and posts the
\* notifications for the handler.
os_changes ==
    /\ Delivering
    /\ changes < MaxLifeChanges
    /\ (reconfigure \/ mode_change \/ begin_configuration)

\* The OS calls the handler with the oldest pending notification.  A
\* notification of the begin phase returns at once (display_callback): that
\* run is over with this step.
handler_enter ==
    /\ Delivering
    /\ pc["os"] = AtIdle
    /\ queue # <<>>
    /\ IF begin_phase(Head(queue).flags)
       THEN /\ pc' = pc
            /\ Observe(Head(queue), "not_called", cached, <<>>, NoCallback)
            /\ UNCHANGED <<lastSet, replaced, runner>>
       ELSE /\ pc' = [pc EXCEPT !["os"] = At("lock", NoCallback, NoCallback, Head(queue))]
            /\ UNCHANGED ghosts
    /\ queue' = Tail(queue)
    /\ UNCHANGED <<platform, os, cached, callback, changes, result, hook, arc, mutex, todo>>

\* The handler takes the lock and, under it, reads the slot, brings the
\* tracker up to date and computes the events it is to pass on.
handler_lock ==
    /\ pc["os"].at = "lock"
    /\ MutexLockable(mutex, "os")
    /\ \E ok \in BOOLEAN, ob \in Orders(DOMAIN cached), oa \in Orders(DOMAIN os) :
          LET h == pc["os"].hint
              w == process_window_message(h.msg, ok, cached, os, ob, oa)
              m == macos_locked(h.id, h.flags, ok, cached, callback, os, ob)
          IN  /\ cached' = IF platform = "windows" THEN w.tracker ELSE m.tracker
              /\ todo' = IF platform = "windows" THEN windows_dispatched(w, callback)
                                                 ELSE callback_calls(m.events)
    /\ mutex' = "os"
    /\ pc' = [pc EXCEPT !["os"] = At("dispatch", NoCallback, NoCallback, pc["os"].hint)]
    /\ UNCHANGED <<platform, os, queue, callback, changes, result, hook, arc>>
    /\ UNCHANGED ghosts

\* The callback that has received the calls of a run, one more call going to
\* the callback now in the slot: "mixed" when they are not all the same.
ReceiverAfter(to, slot) ==
    IF to = NoCallback \/ to = slot THEN slot ELSE "mixed"

\* The dispatch loop passes its next event to the callback in the slot.  The
\* callback returns, or it calls set_callback / remove_callback on the same
\* observer, or it makes the OS call the handler again, before it returns.
handler_call ==
    /\ pc["os"].at = "dispatch"
    /\ todo # <<>>
    /\ todo' = Tail(todo)
    /\ \E inner \in {"dispatch", "set_callback", "remove_callback", "lock"},
          cb \in Callbacks :
          /\ (inner # "set_callback" => cb = callback)
          /\ pc' = [pc EXCEPT !["os"] =
                       At(inner, IF inner = "set_callback" THEN cb ELSE NoCallback,
                          ReceiverAfter(pc["os"].to, callback), pc["os"].hint)]
    /\ UNCHANGED <<platform, os, queue, cached, callback, changes, result, hook, arc, mutex>>
    /\ UNCHANGED ghosts

\* The loop is over: the handler returns and the guard releases the lock.
handler_return ==
    /\ pc["os"].at = "dispatch"
    /\ todo = <<>>
    /\ mutex' = NoHolder
    /\ pc' = [pc EXCEPT !["os"] = AtIdle]
    /\ UNCHANGED <<platform, os, queue, cached, callback, changes, result, hook, arc, todo>>
    /\ UNCHANGED ghosts

\* The application calls set_callback(cb) or remove_callback().
app_calls ==
    /\ result = "Ok"
    /\ pc["app"] = AtIdle
    /\ \/ \E cb \in Callbacks :
             pc' = [pc EXCEPT !["app"] = At("set_callback", cb, NoCallback, NoHint)]
       \/ pc' = [pc EXCEPT !["app"] = At("remove_callback", NoCallback, NoCallback, NoHint)]
    /\ UNCHANGED <<platform, os, queue, cached, callback, changes, result, hook, arc,
                   mutex, todo>>
    /\ UNCHANGED ghosts

\* Where thread t is once its call to set_callback / remove_callback has
\* returned: the application idle, the handler back in its dispatch loop.
AfterStore(t, at) ==
    IF t = "app" THEN AtIdle ELSE At("dispatch", NoCallback, at.to, at.hint)

\* Mutant of set_callback_on: registering a callback also enumerates the
\* displays anew and stores the result as the retained snapshot.
set_callback_on_recollect(t) ==
    /\ pc[t].at = "set_callback"
    /\ MutexLockable(mutex, t)
    /\ callback' = SlotAfterSet(callback, pc[t].arg)
    /\ cached' = collect_new_cached_state(platform, os)
    /\ pc' = [pc EXCEPT ![t] = AfterStore(t, pc[t])]
    /\ UNCHANGED <<platform, os, queue, changes, result, hook, arc, mutex, todo>>
    /\ UNCHANGED ghosts

\* set_callback(cb) on thread t: lock, store in the slot, unlock.
set_callback_on(t) ==
    /\ pc[t].at = "set_callback"
    /\ MutexLockable(mutex, t)
    /\ callback' = SlotAfterSet(callback, pc[t].arg)
    /\ pc' = [pc EXCEPT ![t] = AfterStore(t, pc[t])]
    /\ UNCHANGED <<platform, os, queue, cached, changes, result, hook, arc, mutex, todo>>
    /\ UNCHANGED ghosts

\* remove_callback() on thread t: lock, empty the slot, unlock.
remove_callback_on(t) ==
    /\ pc[t].at = "remove_callback"
    /\ MutexLockable(mutex, t)
    /\ callback' = NoCallback
    /\ pc' = [pc EXCEPT ![t] = AfterStore(t, pc[t])]
    /\ UNCHANGED <<platform, os, queue, cached, changes, result, hook, arc, mutex, todo>>
    /\ UNCHANGED ghosts

\* The registrations left once Drop::drop has run: the reconfiguration
\* callback is removed; the device notification is unregistered and the
\* window destroyed (the window class is never unregistered).
HookAfterDrop(p) == IF p = "windows" THEN {WindowClass} ELSE {}

\* Drop::drop of the observer, on the application's thread.  The windows
\* observer is not Send: it is dropped on the thread of its window, so not
\* while wnd_proc runs.  The OS calls the handler no more after this.
drop_uninstall ==
    /\ result = "Ok"
    /\ pc["app"] = AtIdle
    /\ platform = "windows" => pc["os"] = AtIdle
    /\ hook' = HookAfterDrop(platform)
    /\ queue' = <<>>
    /\ pc' = [pc EXCEPT !["app"] = At("drop", NoCallback, NoCallback, NoHint)]
    /\ UNCHANGED <<platform, os, cached, callback, changes, result, arc, mutex, todo>>
    /\ UNCHANGED ghosts

\* After Drop::drop the fields are dropped: the last Arc goes and the Mutex,
\* the tracker and the callback are freed.
drop_free ==
    /\ pc["app"].at = "drop"
    /\ arc' = "freed"
    /\ pc' = [pc EXCEPT !["app"] = At("dropped", NoCallback, NoCallback, NoHint)]
    /\ UNCHANGED <<platform, os, queue, cached, callback, changes, result, hook, mutex, todo>>
    /\ UNCHANGED ghosts

NextLife ==
    \/ new
    \/ os_changes
    \/ handler_enter
    \/ handler_lock
    \/ handler_call
    \/ handler_return
    \/ app_calls
    \/ \E t \in Threads : set_callback_on(t)
    \/ \E t \in Threads : remove_callback_on(t)
    \/ drop_uninstall
    \/ drop_free

SpecLife == InitLife /\ [][NextLife]_vars

\* ================================================== panicking callback
\* The life cycle again, the callback now being free to panic when called.
\* The Mutex after a thread has panicked while holding it.
Poisoned == "Poisoned"

\* The process was aborted: no thread runs any more.
Aborted == At("aborted", NoCallback, NoCallback, NoHint)

\* The callback panics on the event the dispatch loop passes to it.
\* display_callback is extern "C-unwind": the panic unwinds out of it, which
\* drops the MutexGuard while panicking and so poisons the Mutex; the rest of
\* the loop is not run.  wnd_proc is extern "system": a panic cannot unwind
\* out of it and the process is aborted, the Mutex still held.
callback_panics ==
    /\ pc["os"].at = "dispatch"
    /\ todo # <<>>
    /\ todo' = <<>>
    /\ IF platform = "macos"
       THEN /\ mutex' = Poisoned
            /\ pc' = [pc EXCEPT !["os"] = AtIdle]
            /\ UNCHANGED <<hook, queue>>
       ELSE /\ mutex' = mutex
            /\ pc' = [t \in Threads |-> Aborted]
            /\ hook' = {}
            /\ queue' = <<>>
    /\ UNCHANGED <<platform, os, cached, callback, changes, result, arc>>
    /\ UNCHANGED ghosts

\* The handler's lock() on a poisoned Mutex returns Err: the handler returns
\* (`let Ok(..) = user_info.lock() else { return; }`, `if let Ok(mut ctx)`).
handler_lock_poisoned ==
    /\ pc["os"].at = "lock"
    /\ mutex = Poisoned
    /\ pc' = [pc EXCEPT !["os"] = AtIdle]
    /\ UNCHANGED <<platform, os, queue, cached, callback, changes, result, hook, arc,
                   mutex, todo>>
    /\ UNCHANGED ghosts

\* set_callback / remove_callback on thread t with the Mutex poisoned:
\* `lock().unwrap()` panics before the slot is touched.
lock_unwrap_panics(t) ==
    /\ pc[t].at \in {"set_callback", "remove_callback"}
    /\ mutex = Poisoned
    /\ pc' = [pc EXCEPT ![t] = At("panicked", NoCallback, NoCallback, NoHint)]
    /\ UNCHANGED <<platform, os, queue, cached, callback, changes, result, hook, arc,
                   mutex, todo>>
    /\ UNCHANGED ghosts

\* The OS goes on changing the configuration after the Mutex is poisoned.
os_changes_poisoned ==
    /\ Delivering
    /\ mutex = Poisoned
    /\ changes < MaxLifeChanges + 1
    /\ (reconfigure \/ mode_change)

NextPanic ==
    \/ NextLife
    \/ callback_panics
    \/ handler_lock_poisoned
    \/ \E t \in Threads : lock_unwrap_panics(t)
    \/ os_changes_poisoned

SpecPanic == InitLife /\ [][NextPanic]_vars

\* ================================================= run-loop specification
\* The constructed observer and its blocking loop: the handler is called from
\* within the loop only.
InitRun ==
    /\ platform \in Platforms
    /\ os \in InitialOs
    /\ queue = <<>>
    /\ cached = collect_new_cached_state(platform, os)
    /\ callback = NoCallback
    /\ changes = 0
    /\ hint = NoHint
    /\ provider = "not_called"
    /\ before = cached
    /\ batch = <<>>
    /\ batchTo = NoCallback
    /\ lastSet = NoCallback
    /\ replaced = NoCallback
    /\ result = DisplayObserver_new(platform_new(platform, NoFailure, os))
    /\ hook = platform_new(platform, NoFailure, os).hook
    /\ arc = platform_new(platform, NoFailure, os).arc
    /\ mutex = NoHolder
    /\ pc = [t \in Threads |-> AtIdle]
    /\ todo = <<>>
    /\ runner \in {NotCalled(owner) : owner \in RunThreads}

\* DisplayObserver::run is called.  The macos observer may be shared with any
\* thread; the windows observer holds an HWND and stays on the thread that
\* constructed it.
run ==
    /\ runner.at = "not_called"
    /\ \E th \in RunThreads :
          /\ platform = "windows" => th = runner.owner
          /\ runner' = IF platform = "windows" THEN windows_run(runner, th)
                                               ELSE macos_run(runner, th)
    /\ Idle
    /\ UNCHANGED <<platform, os, queue, cached, callback, changes, lastSet, replaced,
                   result, hook, arc, mutex, pc, todo>>

\* windows: GetMessageW returns and the loop's condition is evaluated.
run_GetMessageW ==
    /\ platform = "windows"
    /\ runner.at = "looping"
    /\ \E ret \in GetMessageWReturns : runner' = windows_run_iteration(runner, ret)
    /\ Idle
    /\ UNCHANGED <<platform, os, queue, cached, callback, changes, lastSet, replaced,
                   result, hook, arc, mutex, pc, todo>>

\* macos: the application is stopped, NSApplication::run() returns and
\* DisplayObserver::run returns Ok(()).
run_NSApplication_returns ==
    /\ platform = "macos"
    /\ runner.at = "looping"
    /\ runner' = [runner EXCEPT !.at = "returned", !.value = "Ok"]
    /\ Idle
    /\ UNCHANGED <<platform, os, queue, cached, callback, changes, lastSet, replaced,
                   result, hook, arc, mutex, pc, todo>>

\* The loop is dispatching: the OS calls the handler.
Looping == runner.at = "looping"

NextRun ==
    \/ run
    \/ run_GetMessageW
    \/ run_NSApplication_returns
    \/ Looping /\ wnd_proc
    \/ Looping /\ display_callback
    \/ os_changes
    \/ \E cb \in Callbacks : set_callback(cb)
    \/ remove_callback

SpecRun == InitRun /\ [][NextRun]_vars

\* ================================================================ properties
\* A handler ran in the last step.
Notified == hint # NoHint

\* What the Snapshot Provider returns in this state (a handler run leaves the
\* OS configuration as it is).
Fresh == collect_new_cached_state(platform, os)

\* The platform's diff of two snapshots: track_events, or track_changes.
Diff(bf, af, ob, oa) ==
    IF platform = "windows" THEN track_events(bf, af, ob, oa)
                            ELSE track_changes(bf, af, ob)

\* The events of a batch that are about display id, in batch order.
EventsAbout(evs, id) == SelectSeq(evs, LAMBDA e : Subject(e) = id)

\* A settled notification of a change: WM_DISPLAYCHANGE, or a CoreGraphics
\* callback after the configuration (no BeginConfigurationFlag).
SettledHint ==
    \/ hint.msg = WM_DISPLAYCHANGE
    \/ hint.msg = CG_RECONFIGURATION /\ BeginConfigurationFlag \notin hint.flags

\* ---------------------------------------------------------------------- C1
\* C1: if the Snapshot Provider fails while a notification is processed, the
\* retained snapshot after the run equals the one before it and the callback
\* is not invoked, whatever the snapshot and the callback slot.
C1_ProviderFailureChangesNothing ==
    provider = "failed" =>
        /\ cached = before
        /\ batch = <<>>
        /\ batchTo = NoCallback

\* C1 witness: the provider failed with a callback registered and with a
\* display configuration that differs from the retained snapshot.
C1_Witness ==
    /\ provider = "failed"
    /\ callback # NoCallback
    /\ Fresh # cached

\* ---------------------------------------------------------------------- C2
\* C2: diffing a snapshot against itself yields no event, in any iteration
\* order; a notification whose fresh enumeration equals the retained
\* snapshot dispatches nothing and leaves the snapshot as it was.
C2_DiffOfSelfIsEmpty ==
    /\ \A ob \in Orders(DOMAIN cached), oa \in Orders(DOMAIN cached) :
          Diff(cached, cached, ob, oa) = <<>>
    /\ (Notified /\ provider = "ok" /\ Fresh = before) =>
          (batch = <<>> /\ cached = before)

\* C2 witness: with a callback registered, an enumeration succeeded and
\* returned exactly the retained, non-empty snapshot.
C2_Witness ==
    /\ Notified
    /\ provider = "ok"
    /\ Fresh = before
    /\ callback # NoCallback
    /\ DOMAIN before # {}

\* ---------------------------------------------------------------------- C3
\* C3: when the new snapshot is the old one plus exactly one id X, the diff
\* old -> new is exactly [Added(X)] and the diff new -> old is exactly
\* [Removed(X)], in every iteration order.
C3_SingleAddedId ==
    \A X \in (DOMAIN cached) \ (DOMAIN before) :
        Remove(cached, X) = before =>
            \A ob \in Orders(DOMAIN before), oa \in Orders(DOMAIN cached) :
                LET fwd == Diff(before, cached, ob, oa)
                    bwd == Diff(cached, before, oa, ob)
                IN  /\ Len(fwd) = 1
                    /\ fwd[1].kind = "Added"
                    /\ Len(bwd) = 1
                    /\ bwd[1].kind = "Removed"
                    /\ bwd[1].id = X

\* ---------------------------------------------------------------------- C4
\* C4: with a callback registered, a notification that takes the retained
\* snapshot from S to S plus one new display X (the others unchanged)
\* invokes the callback exactly once, with Added for X.
C4_EndToEndAdded ==
    (Notified /\ callback # NoCallback) =>
        \A X \in (DOMAIN cached) \ (DOMAIN before) :
            Remove(cached, X) = before =>
                /\ Len(batch) = 1
                /\ batch[1].kind = "Added"
                /\ Subject(batch[1]) = X
                /\ batchTo = callback

\* ---------------------------------------------------------------------- C5
\* The events the claim expects for one display, from its old and new
\* record: SizeChanged, OriginChanged, then Mirrored or UnMirrored, each
\* only when that attribute differs.  (The macos record has no mirrored
\* flag; there the flag's change is what the raw hint says of the display.)
ExpectedMirror(id, b, a) ==
    IF platform = "windows"
    THEN (IF b.is_mirrored # a.is_mirrored
             THEN <<[kind |-> IF a.is_mirrored THEN "Mirrored" ELSE "UnMirrored",
                     before |-> None, after |-> None]>>
             ELSE <<>>)
    ELSE IF id = hint.id /\ MirrorFlag \in hint.flags
         THEN <<[kind |-> "Mirrored", before |-> None, after |-> None]>>
    ELSE IF id = hint.id /\ UnMirrorFlag \in hint.flags
         THEN <<[kind |-> "UnMirrored", before |-> None, after |-> None]>>
    ELSE <<>>

ExpectedEvents(id, b, a) ==
    (IF b.size # a.size
        THEN <<[kind |-> "SizeChanged", before |-> b.size, after |-> a.size]>> ELSE <<>>)
    \o (IF b.origin # a.origin
        THEN <<[kind |-> "OriginChanged", before |-> b.origin, after |-> a.origin]>>
        ELSE <<>>)
    \o ExpectedMirror(id, b, a)

\* What the callback can read of a batch: kind, before and after.
Shown(evs) ==
    [i \in 1..Len(evs) |->
        [kind |-> evs[i].kind, before |-> evs[i].before, after |-> evs[i].after]]

\* C5: for a display present in the old and in the new snapshot, the events
\* dispatched for it are SizeChanged (iff the size differs), OriginChanged
\* (iff the origin differs), Mirrored/UnMirrored (iff the mirrored flag
\* differs), in that order, each with the old value as before and the new
\* one as after; size, origin and mirror state changing together give three.
C5_FixedAttributeOrder ==
    (Notified /\ SettledHint /\ callback # NoCallback /\ provider # "failed") =>
        \A id \in (DOMAIN before) \cap (DOMAIN Fresh) :
            Shown(EventsAbout(batch, id)) = ExpectedEvents(id, before[id], Fresh[id])

\* ---------------------------------------------------------------------- C6
\* C6: every dispatched event goes to the callback the latest set_callback
\* registered, never to one it replaced; the slot holds at most one callback.
C6_OnlyLatestCallback ==
    /\ callback \in Callbacks \cup {NoCallback}
    /\ batch # <<>> =>
          /\ batchTo = lastSet
          /\ batchTo \in Callbacks
          /\ (replaced # lastSet => batchTo # replaced)

\* C6 witness: after set_callback(A) then set_callback(B), a notification
\* dispatched events, and they went to B.
C6_Witness ==
    /\ batch # <<>>
    /\ replaced = "A"
    /\ lastSet = "B"
    /\ batchTo = "B"

\* ---------------------------------------------------------------------- C7
\* C7: while no callback is registered, a settled notification whose
\* enumeration does not fail still brings the retained snapshot up to the
\* current display state, and dispatches nothing.
C7_SnapshotTracksWithoutCallback ==
    (Notified /\ SettledHint /\ callback = NoCallback /\ provider # "failed") =>
        /\ cached = Fresh
        /\ batch = <<>>

\* ---------------------------------------------------------------------- C8
\* C8 as claimed: after a notification whose enumeration succeeds the
\* retained snapshot is the one the provider returned, and in every other
\* case the retained snapshot is left as it was.
C8_ReplacedOnlyOnSuccess ==
    /\ provider = "ok" => cached = Fresh
    /\ provider # "ok" => cached = before

\* C8 amended: as claimed, except that on macos, with a callback registered,
\* a notification with the Add flag inserts the hinted id with the bounds the
\* OS reports for it, and one with the Remove flag (and no Add flag) deletes
\* the hinted id, both without an enumeration.
C8_ReplacedOnSuccessOrHintedEdit ==
    /\ provider = "ok" => cached = Fresh
    /\ provider # "ok" =>
          \/ cached = before
          \/ /\ platform = "macos"
             /\ callback # NoCallback
             /\ AddFlag \in hint.flags
             /\ cached = Insert(before, hint.id, macos_display_state(os, hint.id))
          \/ /\ platform = "macos"
             /\ callback # NoCallback
             /\ AddFlag \notin hint.flags
             /\ RemoveFlag \in hint.flags
             /\ cached = Remove(before, hint.id)

\* C8 witness: an enumeration succeeded and the retained snapshot was
\* replaced by a different one.
C8_Witness ==
    /\ Notified
    /\ provider = "ok"
    /\ cached # before
    /\ cached = Fresh

\* ---------------------------------------------------------------------- C9
\* C9: in the batch of one notification, a Removed event for id X comes with
\* no other event about X.
C9_RemovedComesAlone ==
    \A i, j \in 1..Len(batch) :
        (batch[i].kind = "Removed" /\ i # j) => Subject(batch[j]) # batch[i].id

\* C9 witness: a batch holds a Removed event and another event.
C9_Witness ==
    \E i, j \in 1..Len(batch) : batch[i].kind = "Removed" /\ i # j

\* --------------------------------------------------------------------- C10
\* C10: a dispatched Added(X) has X absent from the retained snapshot before
\* the notification and present after it; a dispatched Removed(X) has X
\* present before and absent after; no event is about an id absent from both.
C10_EventsMatchKeySets ==
    \A i \in 1..Len(batch) :
        LET e == batch[i]
            X == Subject(e)
        IN  /\ e.kind = "Added" => (X \notin DOMAIN before /\ X \in DOMAIN cached)
            /\ e.kind = "Removed" => (X \in DOMAIN before /\ X \notin DOMAIN cached)
            /\ X \in (DOMAIN before) \cup (DOMAIN cached)

\* --------------------------------------------------------------------- C11
\* What an event of a diff says: its kind, the display it names (track_events
\* names one in every event, track_changes in none), before and after.
Said(e) ==
    [kind |-> e.kind,
     subject |-> IF platform = "windows" THEN Subject(e) ELSE e.id,
     before |-> e.before, after |-> e.after]

SaidSeq(evs) == [i \in 1..Len(evs) |-> Said(evs[i])]

\* The event the swapped diff is claimed to hold in place of s.
Swapped(s) ==
    [kind |-> CASE s.kind = "Added" -> "Removed"
                [] s.kind = "Removed" -> "Added"
                [] s.kind = "Mirrored" -> "UnMirrored"
                [] s.kind = "UnMirrored" -> "Mirrored"
                [] OTHER -> s.kind,
     subject |-> s.subject, before |-> s.after, after |-> s.before]

SwappedSeq(ss) == [i \in 1..Len(ss) |-> Swapped(ss[i])]

\* Two sequences with the same elements, each as often, in any order.
Count(seq, x) == Cardinality({i \in 1..Len(seq) : seq[i] = x})
SameBag(s, t) ==
    /\ Len(s) = Len(t)
    /\ \A i \in 1..Len(s) : Count(s, s[i]) = Count(t, s[i])

\* A snapshot cut down to one display.
Restrict(map, id) == [i \in (DOMAIN map) \cap {id} |-> map[i]]

\* C11: for the snapshots before and after a notification, the diff with its
\* arguments swapped holds Removed for every Added and Added for every
\* Removed, and every SizeChanged/OriginChanged with before and after
\* exchanged: the same events as a whole, and in the same order display by
\* display.
C11_SwapSymmetry ==
    /\ \A ob \in Orders(DOMAIN before), oa \in Orders(DOMAIN cached) :
          SameBag(SwappedSeq(SaidSeq(Diff(before, cached, ob, oa))),
                  SaidSeq(Diff(cached, before, oa, ob)))
    /\ \A id \in (DOMAIN before) \cup (DOMAIN cached) :
          \A ob \in Orders(DOMAIN Restrict(before, id)),
             oa \in Orders(DOMAIN Restrict(cached, id)) :
              SwappedSeq(SaidSeq(Diff(Restrict(before, id), Restrict(cached, id), ob, oa)))
                  = SaidSeq(Diff(Restrict(cached, id), Restrict(before, id), oa, ob))

\* C11 witness: the snapshots around a notification differ in two displays,
\* one present in only one of them and one changed in both.
C11_Witness ==
    /\ Notified
    /\ \E X \in (DOMAIN before) \ (DOMAIN cached), Y \in (DOMAIN before) \cap (DOMAIN cached) :
          /\ before[Y].size # cached[Y].size
          /\ \E ob \in Orders(DOMAIN before), oa \in Orders(DOMAIN cached) :
                Len(Diff(before, cached, ob, oa)) >= 2

\* --------------------------------------------------------------------- C12
\* C12: the diff of the snapshots before and after a notification is one
\* event sequence, the same in whatever order the records of either snapshot
\* are held and visited.
C12_OrderInvariance ==
    \A ob1, ob2 \in Orders(DOMAIN before), oa1, oa2 \in Orders(DOMAIN cached) :
        Diff(before, cached, ob1, oa1) = Diff(before, cached, ob2, oa2)

\* --------------------------------------------------------------------- C13
\* The settled raw notifications the OS can deliver on this platform.
SettledFlags == {AddFlag, RemoveFlag, MirrorFlag, UnMirrorFlag, SetModeFlag, MovedFlag}
SettledHints ==
    IF platform = "windows"
    THEN {WinMessage(WM_DISPLAYCHANGE)}
    ELSE {CGHint(id, flags) : id \in Ids, flags \in (SUBSET SettledFlags) \ {{}}}

\* The events the handler passes to the callback when it is run on raw
\* notification h with retained snapshot tracker, callback slot slot and
\* display configuration o, the enumeration succeeding.
DispatchedFor(h, tracker, slot, o, ob, oa) ==
    IF platform = "windows"
    THEN windows_dispatched(process_window_message(h.msg, TRUE, tracker, o, ob, oa), slot)
    ELSE callback_calls(macos_locked(h.id, h.flags, TRUE, tracker, slot, o, ob).events)

\* C13: the events dispatched for a settled notification are those any
\* other settled raw notification would have dispatched from the same
\* retained snapshot and the same display configuration (as a bag: the
\* order between displays is C12's matter).
C13_IndependentOfHint ==
    (Notified /\ SettledHint /\ callback # NoCallback /\ provider # "failed") =>
        \A h2 \in SettledHints :
            \A ob \in Orders(DOMAIN before), oa \in Orders(DOMAIN os) :
                SameBag(DispatchedFor(h2, before, callback, os, ob, oa), batch)

\* --------------------------------------------------------------------- C14
\* The event sequence the handler computes for raw notification h, before
\* any of it is passed on: track_events' result, or the events vector of
\* display_callback.
ComputedFor(h, ok, tracker, slot, o, ob, oa) ==
    IF platform = "windows"
    THEN IF h.msg = WM_DISPLAYCHANGE /\ ok
         THEN track_events(tracker, windows_collect_new_cached_state(o), ob, oa)
         ELSE <<>>
    ELSE IF BeginConfigurationFlag \in h.flags \/ slot = NoCallback THEN <<>>
    ELSE macos_flag_chain(h.id, h.flags, ok, tracker, o, ob).events

\* C14: with a callback registered, the calls a notification makes to the
\* callback are the events of the sequence computed for that notification:
\* one call per event, in the order of the sequence, none left out and none
\* repeated, all to the registered callback.
C14_OncePerEventInOrder ==
    (Notified /\ callback # NoCallback) =>
        /\ \E ob \in Orders(DOMAIN before), oa \in Orders(DOMAIN os) :
              batch = ComputedFor(hint, provider # "failed", before, callback, os, ob, oa)
        /\ batch # <<>> => batchTo = callback

\* C14 witness: a notification made more than one call to the callback.
C14_Witness ==
    /\ Notified
    /\ callback # NoCallback
    /\ Len(batch) >= 2
    /\ batch[1] # batch[2]

\* --------------------------------------------------------------------- C15
\* C15: every handler run takes the oldest raw notification still pending
\* and makes all its calls to the callback within that run, so the events of
\* an earlier notification precede those of a later one; it computes its
\* events against the retained snapshot as the run before it left it, which
\* nothing but a handler run changes; the OS only appends to what is pending.
C15_InDeliveryOrder ==
    [][ /\ (hint' # NoHint) =>
              /\ queue # <<>>
              /\ hint' = Head(queue)
              /\ queue' = Tail(queue)
              /\ before' = cached
              /\ \E ob \in Orders(DOMAIN cached), oa \in Orders(DOMAIN os) :
                    batch' = IF callback = NoCallback THEN <<>>
                             ELSE ComputedFor(hint', provider' # "failed", cached,
                                              callback, os, ob, oa)
        /\ (hint' = NoHint) =>
              /\ cached' = cached
              /\ Len(queue') >= Len(queue)
              /\ SubSeq(queue', 1, Len(queue)) = queue
      ]_vars

\* C15 witness: after the last reconfiguration a notification was processed,
\* replaced the snapshot and dispatched events, while a later notification
\* is still pending.
C15_Witness ==
    /\ Notified
    /\ batch # <<>>
    /\ queue # <<>>
    /\ changes = MaxChanges
    /\ before # cached

\* ----------------------------------------------------- C16 (under SpecLife)
\* C16: once the observer is constructed, a step changes the retained
\* snapshot or the callback slot only by taking the lock from the state in
\* which no thread holds it; while the handler holds the lock for its
\* dispatch the slot stays as it is; and the calls of one handler run all go
\* to the same callback.  (The callback is called on the handler's thread
\* only, so never in two threads at once.)
C16_LockGuardsSnapshotAndSlot ==
    [][ /\ (result = "Ok" /\ (cached' # cached \/ callback' # callback))
              => mutex = NoHolder
        /\ mutex = "os" => callback' = callback
        /\ pc'["os"].to # "mixed"
        /\ pc'["app"].to = NoCallback
      ]_vars

\* C16 witness: the handler is in its dispatch loop, one call made and one
\* still to make, while the application's thread waits in set_callback
\* with another callback.
C16_Witness ==
    /\ pc["os"].at = "dispatch"
    /\ pc["os"].to \in Callbacks
    /\ todo # <<>>
    /\ pc["app"].at = "set_callback"
    /\ pc["app"].arg # pc["os"].to

\* ----------------------------------------------------- C17 (under SpecLife)
\* The callback, called by the dispatch loop, has called set_callback or
\* remove_callback on the same observer, or made the OS call the handler
\* again, and that inner call is at its Mutex::lock.
Reentered ==
    /\ mutex = "os"
    /\ pc["os"].at \in {"set_callback", "remove_callback", "lock"}

\* C17: from a reentered state on, the inner call never gets the lock and
\* never returns, the handler stays where it is with the lock held, and the
\* slot and the events still to pass on stay as they are: neither the inner
\* call nor the dispatch completes.
C17_ReentryNeverCompletes ==
    [][ Reentered =>
            /\ Reentered'
            /\ pc'["os"] = pc["os"]
            /\ UNCHANGED <<mutex, callback, cached, todo>>
      ]_vars

\* C17 witness: the callback called set_callback from inside a dispatch that
\* has events left to pass on, while the application waits for the lock too.
C17_Witness ==
    /\ Reentered
    /\ pc["os"].at = "set_callback"
    /\ todo # <<>>
    /\ pc["app"].at = "remove_callback"

\* ----------------------------------------------------- C18 (under SpecLife)
\* A step of set_callback or remove_callback: a thread goes into the call or
\* comes out of it.
SetOrRemoveStep ==
    \E t \in Threads :
        /\ pc'[t] # pc[t]
        /\ \/ pc[t].at \in {"set_callback", "remove_callback"}
           \/ pc'[t].at \in {"set_callback", "remove_callback"}

\* C18: nothing is registered with the OS before construction; a constructed
\* observer holds all its registrations until its drop begins; the
\* registrations change in construction and in drop only; and a step of
\* set_callback or remove_callback leaves the registrations, the retained
\* snapshot and the allocation as they are, whatever it does to the slot.
C18_HookOnceForLife ==
    /\ [](result = "none" => hook = {})
    /\ []((result = "Ok" /\ pc["app"].at \notin {"drop", "dropped"})
              => hook = FullHook(platform))
    /\ [][ /\ hook' # hook => (result = "none" \/ pc'["app"].at = "drop")
           /\ (SetOrRemoveStep \/ callback' # callback) =>
                 UNCHANGED <<hook, cached, arc, result>>
         ]_vars

\* C18 witness: a callback is registered in place of another while a
\* notification is pending and the retained snapshot is out of date, the
\* registrations all standing.
C18_Witness ==
    /\ result = "Ok"
    /\ hook = FullHook(platform)
    /\ callback = "B"
    /\ pc["app"].at = "remove_callback"
    /\ queue # <<>>
    /\ cached # Fresh

\* ----------------------------------------------------- C19 (under SpecLife)
\* C19: when the allocation of lock, snapshot and callback is freed, the
\* observer's registrations have been taken back and no handler run is in
\* progress that holds the pointer to it: no run reads or writes the state
\* after it is freed, also when the drop runs while a notification is being
\* processed.
C19_NoNotifyAfterFree ==
    (result = "Ok" /\ arc = "freed") =>
        /\ hook = HookAfterDrop(platform)
        /\ pc["os"] = AtIdle
        /\ mutex = NoHolder

\* ----------------------------------------------------- C20 (under SpecLife)
\* C20: when a call of the construction fails (a registration with the OS,
\* or the first enumeration), DisplayObserver::new returns the
\* InitializationError variant, and no observer: whatever new returns other
\* than Ok is InitializationError.
C20_InitializationErrorOnFailure ==
    result \in {"none", "Ok", "InitializationError"}

\* C21: on macos DisplayObserver::new always returns Ok, whatever the first
\* enumeration and the registration of the reconfiguration callback return.
C21_MacosNewAlwaysOk ==
    platform = "macos" => result \in {"none", "Ok"}

\* The thread the platform designates for the loop: the main thread on macos;
\* on windows a window's messages go to the thread that created the window,
\* which is the thread the observer was constructed on.
UiThread(p, owner) == IF p = "macos" THEN "main" ELSE owner

C23_ErrOnFailedGetMessageW ==
    platform = "windows" =>
        /\ runner.got = <<-1>> => runner.at = "returned" /\ runner.value = "Err"
        /\ runner.value = "Ok" => runner.got = <<0>>

\* C24: a notification of the begin phase is filtered out: the handler run
\* for it ends before the lock, so it changes neither the retained snapshot
\* nor the callback slot, calls no callback and no provider; no run that got
\* past the filter is for such a notification.
C24_BeginPhaseFiltered ==
    /\ [](pc["os"].at # "idle" => BeginConfigurationFlag \notin pc["os"].hint.flags)
    /\ []((Notified /\ BeginConfigurationFlag \in hint.flags) =>
             /\ batch = <<>>
             /\ batchTo = NoCallback
             /\ provider = "not_called")
    /\ [][(hint' # hint /\ BeginConfigurationFlag \in hint'.flags) =>
             /\ cached' = cached
             /\ callback' = callback
             /\ mutex' = mutex
             /\ todo' = todo
             /\ pc' = pc]_vars

\* A notification of the begin phase was delivered while a callback was
\* registered.
C24_Witness ==
    /\ Notified
    /\ BeginConfigurationFlag \in hint.flags
    /\ callback # NoCallback

\* The mirrored flag of display id went from ~to to to between the snapshots
\* b and a (a snapshot of macos keeps no mirrored flag).
SnapshotFlip(b, a, id, to) ==
    /\ id \in DOMAIN b
    /\ id \in DOMAIN a
    /\ "is_mirrored" \in DOMAIN b[id]
    /\ "is_mirrored" \in DOMAIN a[id]
    /\ b[id].is_mirrored = ~to
    /\ a[id].is_mirrored = to

MirrorKinds == {"Mirrored", "UnMirrored"}

ReplayOne(snap, e) ==
    LET id == Subject(e)
    IN  IF e.kind = "Added"
        THEN IF id \in DOMAIN Fresh THEN Insert(snap, id, Fresh[id]) ELSE snap
        ELSE IF e.kind = "Removed" THEN Remove(snap, id)
        ELSE IF id \notin DOMAIN snap THEN snap
        ELSE IF e.kind = "SizeChanged"
        THEN [snap EXCEPT ![id] = [@ EXCEPT !.size = e.after]]
        ELSE IF e.kind = "OriginChanged"
        THEN [snap EXCEPT ![id] = [@ EXCEPT !.origin = e.after]]
        ELSE IF "is_mirrored" \in DOMAIN snap[id]
        THEN [snap EXCEPT ![id] = [@ EXCEPT !.is_mirrored = (e.kind = "Mirrored")]]
        ELSE snap

\* The attributes of a snapshot that events report.
Tracked(snap) ==
    [id \in DOMAIN snap |->
        IF "is_mirrored" \in DOMAIN snap[id]
        THEN [size |-> snap[id].size, origin |-> snap[id].origin,
              is_mirrored |-> snap[id].is_mirrored]
        ELSE [size |-> snap[id].size, origin |-> snap[id].origin]]

RECURSIVE Replay(_, _)
Replay(snap, evs) ==
    IF evs = <<>> THEN snap ELSE Replay(ReplayOne(snap, Head(evs)), Tail(evs))

\* C26: no update is lost.  With a callback registered and the enumeration
\* succeeding, once the notifications of the first reconfiguration have all
\* been processed, replaying the dispatched events in order onto the snapshot
\* the observer started with gives the retained snapshot, and the retained
\* snapshot is the current display state.
C26_NoLostUpdates ==
    (/\ Notified
     /\ SettledHint
     /\ callback # NoCallback
     /\ provider # "failed"
     /\ changes = 1
     /\ queue = <<>>) =>
        /\ Tracked(Replay(before, batch)) = Tracked(cached)
        /\ cached = Fresh

\* C27: every event dispatched in an Available wrapper comes with the display
\* whose attribute changed: a SizeChanged / OriginChanged {before, after} is
\* wrapped with a display that had size / origin `before` in the old snapshot
\* and has `after` in the new one, whichever display the notification named.
C27_AvailableCarriesChangedDisplay ==
    \A i \in DOMAIN batch :
        LET e  == batch[i]
            id == Subject(e)
        IN  (e.wrapper = "Available" /\ e.kind \in {"SizeChanged", "OriginChanged"}) =>
                /\ id \in DOMAIN before
                /\ id \in DOMAIN cached
                /\ e.kind = "SizeChanged" =>
                       before[id].size = e.before /\ cached[id].size = e.after
                /\ e.kind = "OriginChanged" =>
                       before[id].origin = e.before /\ cached[id].origin = e.after

\* The display the OS reports under id when the observer is constructed.
OsAtStart(id) == IF id = Min(Ids) THEN D1 ELSE D2

\* C28: the conversion of the OS's coordinates into the cached Origin is
\* injective, so a change of a display's OS origin is seen.  Once the
\* notification of the first reconfiguration has been processed with a
\* callback registered and the enumeration succeeding, every display whose OS
\* origin is no longer the one it started with has a cached origin that
\* differs from the old one, and an OriginChanged was dispatched for it.
C28_OriginChangeIsSeen ==
    (/\ Notified
     /\ SettledHint
     /\ callback # NoCallback
     /\ provider = "ok"
     /\ changes = 1
     /\ queue = <<>>) =>
        \A id \in (DOMAIN before) \cap (DOMAIN os) :
            os[id].origin # OsAtStart(id).origin =>
                /\ id \in DOMAIN cached
                /\ cached[id].origin # before[id].origin
                /\ \E i \in DOMAIN batch :
                      batch[i].kind = "OriginChanged" /\ Subject(batch[i]) = id

\* C29: when DisplayObserver::new returns an error, whichever step failed,
\* nothing that attempt installed is left behind (no hidden window, no
\* notification registration, no reconfiguration callback; the window class
\* aside), and the OS calls no handler for it afterwards.
C29_FailedNewLeavesNothing ==
    result = ErrorFromPlatformError =>
        /\ hook \subseteq {WindowClass}
        /\ pc["os"] = AtIdle
        /\ queue = <<>>

\* A step in which the callback, called by the dispatch loop, panics: the
\* loop had an event to pass on and the handler is left in no other way.
CallbackPanicStep ==
    /\ pc["os"].at = "dispatch"
    /\ todo # <<>>
    /\ pc'["os"].at \notin {"dispatch", "set_callback", "remove_callback", "lock"}

\* C30: a callback that panics during dispatch poisons the lock; from then
\* on no notification changes the retained snapshot or calls a callback, the
\* events of the interrupted batch are not delivered, the lock stays
\* poisoned, and set_callback / remove_callback panic without storing.
C30_PanicPoisonsLock ==
    /\ [][CallbackPanicStep => (mutex' = Poisoned /\ cached' = cached)]_vars
    /\ [](mutex = Poisoned => (todo = <<>> /\ pc["os"].at \in {"idle", "lock"}))
    /\ [][mutex = Poisoned =>
             /\ mutex' = Poisoned
             /\ cached' = cached
             /\ callback' = callback
             /\ todo' = <<>>]_vars
    /\ [][(/\ mutex = Poisoned
           /\ pc["app"].at \in {"set_callback", "remove_callback"}
           /\ pc'["app"] # pc["app"]) => pc'["app"].at = "panicked"]_vars

====
